---- MODULE Spec2Model ----
(***************************************************************************)
(* Tic-tac-toe simulator of chapter01/tic-tac-toe-sim (src/main.rs): the   *)
(* bit-packed Board, the three Agent variants, update_q and the referee    *)
(* loop of play_game, driven as main drives it.                            *)
(*                                                                         *)
(* Table values are f32 in the source.  They are modelled as exact         *)
(* decimals, an integer count of units of 1/Scale: a key is updated at     *)
(* most once per game, so MaxGames games need MaxGames + 1 decimal places  *)
(* (C10_UpdateQ checks that no update loses a digit).                      *)
(***************************************************************************)
EXTENDS Integers, Sequences, FiniteSets, TLC

\* ------------------------------------------------------------------ bounds
\* Calls of play_game in one run of the self-play loop (100000 in main).
MaxGames == 2
\* Times the exploration branch (next_u32() % 100 == 1) is taken in one run.
MaxExplore == 1

\* ------------------------------------------------------------ bit helpers
\* `&` and `|` of two bits, then of two hexadecimal digits, then of two u32
\* (every operand of the program is below 2^18).
RECURSIVE AndBits(_, _)
AndBits(a, b) ==
    IF a = 0 \/ b = 0 THEN 0
    ELSE (a % 2) * (b % 2) + 2 * AndBits(a \div 2, b \div 2)

RECURSIVE OrBits(_, _)
OrBits(a, b) ==
    IF a = 0 THEN b
    ELSE IF b = 0 THEN a
    ELSE (IF a % 2 = 1 \/ b % 2 = 1 THEN 1 ELSE 0) + 2 * OrBits(a \div 2, b \div 2)

AndDigit == [a \in 0..15 |-> [b \in 0..15 |-> AndBits(a, b)]]

OrDigit == [a \in 0..15 |-> [b \in 0..15 |-> OrBits(a, b)]]

RECURSIVE BitAnd(_, _)
BitAnd(a, b) ==
    IF a = 0 \/ b = 0 THEN 0
    ELSE AndDigit[a % 16][b % 16] + 16 * BitAnd(a \div 16, b \div 16)

RECURSIVE BitOr(_, _)
BitOr(a, b) ==
    IF a = 0 THEN b
    ELSE IF b = 0 THEN a
    ELSE OrDigit[a % 16][b % 16] + 16 * BitOr(a \div 16, b \div 16)

\* u32 `<<`; the program shifts a 2-bit mask by at most 16.
Shl(a, n) == a * 2^n

\* ------------------------------------------------------------- constants
WINNING_COMBINATIONS ==
    << <<0, 1, 2>>, <<3, 4, 5>>, <<6, 7, 8>>,
       <<0, 3, 6>>, <<1, 4, 7>>, <<2, 5, 8>>,
       <<0, 4, 8>>, <<2, 4, 6>> >>

\* 0b101010101010101010, the occupied bit of the nine cells.
OCCUPIED_BITS == 174762

\* Units per 1.0 of a table value.
Scale == 10^(MaxGames + 1)

DEFAULT_VALUE == 0

\* f32::MIN: below every value a table can hold.
F32_MIN == -(1000 * Scale)

\* The divisor of the learning rate 0.1.
ALPHA_DIV == 10

REWARD_WIN == Scale
REWARD_DRAW == -(Scale \div 2)
REWARD_LOSS == -Scale

Markers == {"X", "O"}
Kinds == {"Random", "Human", "RL"}
Slots == {"x_agent", "o_agent"}

\* ---------------------------------------------------------- PlayerMarker
player_char(player) == IF player = "X" THEN "X" ELSE "O"

\* (O encoded as 01)
player_mask_O01(player) == IF player = "X" THEN 3 ELSE 1

player_mask(player) == IF player = "X" THEN 3 ELSE 2

\* ------------------------------------------------------------------ Board
new == 0

\* (O's mask tested before X's)
at_OFirst(spaces, index) ==
    LET x_mask == Shl(player_mask("X"), index * 2)
        o_mask == Shl(player_mask("O"), index * 2)
    IN  IF BitAnd(spaces, o_mask) = o_mask THEN "O"
        ELSE IF BitAnd(spaces, x_mask) = x_mask THEN "X"
        ELSE " "

at(spaces, index) ==
    LET x_mask == Shl(player_mask("X"), index * 2)
        o_mask == Shl(player_mask("O"), index * 2)
    IN  IF BitAnd(spaces, x_mask) = x_mask THEN "X"
        ELSE IF BitAnd(spaces, o_mask) = o_mask THEN "O"
        ELSE " "

\* (a line of occupied cells, whoever occupies them)
check_winner_AnyMarker(spaces, player) ==
    \E c \in 1..8 :
        \A k \in 1..3 : at(spaces, WINNING_COMBINATIONS[c][k]) # " "

\* (rows and columns only)
check_winner_NoDiagonals(spaces, player) ==
    \E c \in 1..6 :
        \A k \in 1..3 : at(spaces, WINNING_COMBINATIONS[c][k]) = player_char(player)

check_winner(spaces, player) ==
    \E c \in 1..8 :
        \A k \in 1..3 : at(spaces, WINNING_COMBINATIONS[c][k]) = player_char(player)

\* (the low bit of each field instead of the occupied bit)
is_draw_LowBits(spaces) == BitAnd(spaces, OCCUPIED_BITS \div 2) = OCCUPIED_BITS \div 2

\* (the mask of the first eight cells)
is_draw_EightCells(spaces) ==
    BitAnd(spaces, OCCUPIED_BITS % 2^16) = OCCUPIED_BITS % 2^16

is_draw(spaces) == BitAnd(spaces, OCCUPIED_BITS) = OCCUPIED_BITS

\* (only the low bit of the field is tested)
available_LowBit(spaces, index) ==
    LET mask == Shl(1, index * 2)
    IN  BitAnd(spaces, mask) = 0

available(spaces, index) ==
    LET mask == Shl(3, index * 2)
    IN  BitAnd(spaces, mask) = 0

\* (shift by index, not by index * 2)
set_ShiftByIndex(spaces, index, value) ==
    LET player_char_ == player_mask(value)
    IN  BitOr(spaces, Shl(player_char_, index))

set(spaces, index, value) ==
    LET player_char_ == player_mask(value)
    IN  BitOr(spaces, Shl(player_char_, index * 2))

\* ---------------------------------------------------------------- update_q
\* q_table.get(&key).unwrap_or(&0.0)
Lookup(q_table, key) == IF key \in DOMAIN q_table THEN q_table[key] ELSE 0

Insert(q_table, key, value) ==
    [k \in (DOMAIN q_table) \cup {key} |-> IF k = key THEN value ELSE q_table[k]]

\* (the step is ten times the difference instead of a tenth of it)
update_q_Overshoot(q_table, prev_board, reward) ==
    IF prev_board \in DOMAIN q_table
    THEN LET prev_reward == q_table[prev_board]
         IN  Insert(q_table, prev_board,
                    prev_reward + (reward - prev_reward) * ALPHA_DIV)
    ELSE Insert(q_table, prev_board,
                DEFAULT_VALUE + (reward - DEFAULT_VALUE) * ALPHA_DIV)

\* (the Occupied branch adds 0.1 * reward without taking the old value off)
update_q_NoDecay(q_table, prev_board, reward) ==
    IF prev_board \in DOMAIN q_table
    THEN LET prev_reward == q_table[prev_board]
         IN  Insert(q_table, prev_board, prev_reward + reward \div ALPHA_DIV)
    ELSE Insert(q_table, prev_board,
                DEFAULT_VALUE + (reward - DEFAULT_VALUE) \div ALPHA_DIV)

update_q(q_table, prev_board, reward) ==
    IF prev_board \in DOMAIN q_table
    THEN LET prev_reward == q_table[prev_board]
         IN  Insert(q_table, prev_board,
                    prev_reward + (reward - prev_reward) \div ALPHA_DIV)
    ELSE Insert(q_table, prev_board,
                DEFAULT_VALUE + (reward - DEFAULT_VALUE) \div ALPHA_DIV)

\* ------------------------------------------------------------------ state
VARIABLES
    kind,            \* the Agent variant passed to play_game in each slot
    q_table,         \* Agent::RL.0 of each slot: board encoding -> value
    prev_board,      \* Agent::RL.1 of each slot
    spaces,          \* board.spaces of the running game
    current_player,  \* play_game's current_player
    current_agent,   \* the slot play_game's current_agent refers to
    other_agent,     \* the slot play_game's other_agent refers to
    pc,              \* "playing", "returned" or "panic"
    result,          \* what play_game returned, "None" while it runs
    games,           \* calls of play_game so far
    explores,        \* exploration branches taken so far
    moves,           \* iterations of play_game's loop in this game
    move_index,      \* what get_move returned last (-1 before a move)
    branch,          \* the branch of get_move that ran last
    draw_tested,     \* whether the last iteration evaluated is_draw
    notes            \* the report_* calls each slot received in this game

vars == << kind, q_table, prev_board, spaces, current_player, current_agent,
           other_agent, pc, result, games, explores, moves, move_index,
           branch, draw_tested, notes >>

\* ---------------------------------------------------------------- get_move
\* (0..9).filter(|&i| board.available(i)).collect()
AvailableList(board) == SelectSeq(<<0, 1, 2, 3, 4, 5, 6, 7, 8>>,
                                  LAMBDA i : available(board, i))

\* What next_u32() can be, up to the residues the program takes of it.
RandDraws == 0..8

\* (`>=` for `>`: the last maximum instead of the first)
RECURSIVE Scan_LastMax(_, _, _, _, _, _)
Scan_LastMax(i, board, player, table, best_move, best_value) ==
    IF i = 9 THEN << best_move, best_value >>
    ELSE IF available(board, i)
         THEN LET eval_board == BitOr(board, Shl(player_mask(player), i * 2))
                  value == Lookup(table, eval_board)
              IN  IF value >= best_value
                  THEN Scan_LastMax(i + 1, board, player, table, << i >>, value)
                  ELSE Scan_LastMax(i + 1, board, player, table, best_move, best_value)
         ELSE Scan_LastMax(i + 1, board, player, table, best_move, best_value)

\* The scan of the RL branch: <<best_move, best_value>>, best_move an Option.
RECURSIVE Scan(_, _, _, _, _, _)
Scan(i, board, player, table, best_move, best_value) ==
    IF i = 9 THEN << best_move, best_value >>
    ELSE IF available(board, i)
         THEN LET eval_board == BitOr(board, Shl(player_mask(player), i * 2))
                  value == Lookup(table, eval_board)
              IN  IF value > best_value
                  THEN Scan(i + 1, board, player, table, << i >>, value)
                  ELSE Scan(i + 1, board, player, table, best_move, best_value)
         ELSE Scan(i + 1, board, player, table, best_move, best_value)

Greedy(board, player, table) == Scan(0, board, player, table, << >>, F32_MIN)

\* ---------------------------------------------------------------- report_*
\* st = [q, p, n]: the agents' tables, their previous states and the calls
\* each has received.  Only Agent::RL has a table to update.
\* (the previous state is not reset)
Report_NoReset(a, st, reward, note) ==
    [q |-> IF kind[a] = "RL"
           THEN [st.q EXCEPT ![a] = update_q(st.q[a], st.p[a], reward)]
           ELSE st.q,
     p |-> st.p,
     n |-> [st.n EXCEPT ![a] = Append(@, note)]]

Report(a, st, reward, note) ==
    [q |-> IF kind[a] = "RL"
           THEN [st.q EXCEPT ![a] = update_q(st.q[a], st.p[a], reward)]
           ELSE st.q,
     p |-> IF kind[a] = "RL" THEN [st.p EXCEPT ![a] = 0] ELSE st.p,
     n |-> [st.n EXCEPT ![a] = Append(@, note)]]

report_win(a, st) == Report(a, st, REWARD_WIN, "win")

report_draw(a, st) == Report(a, st, REWARD_DRAW, "draw")

\* (the loser is told it won)
report_loss_AsWin(a, st) == Report(a, st, REWARD_WIN, "win")

report_loss(a, st) == Report(a, st, REWARD_LOSS, "loss")

\* --------------------------------------------------------------- play_game
\* The two tests play_game makes after a move, in its order, and whether
\* is_draw was evaluated.
\* (fullness tested before the win)
Verdict_DrawFirst(board, player) ==
    IF is_draw(board) THEN [outcome |-> "draw", draw_tested |-> TRUE]
    ELSE IF check_winner(board, player) THEN [outcome |-> "win", draw_tested |-> TRUE]
    ELSE [outcome |-> "continue", draw_tested |-> TRUE]

\* (the draw test left out)
Verdict_NoDraw(board, player) ==
    IF check_winner(board, player) THEN [outcome |-> "win", draw_tested |-> FALSE]
    ELSE [outcome |-> "continue", draw_tested |-> TRUE]

Verdict(board, player) ==
    IF check_winner(board, player) THEN [outcome |-> "win", draw_tested |-> FALSE]
    ELSE IF is_draw(board) THEN [outcome |-> "draw", draw_tested |-> TRUE]
    ELSE [outcome |-> "continue", draw_tested |-> TRUE]

\* (the marker flips, the agents are not swapped)
Referee_NoSwap(mi, q, p) ==
    \* (each value is bound once, so that it is computed once)
    \E board \in {set(spaces, mi, current_player)} :
    \E v \in {Verdict(board, current_player)} :
    \E st \in {LET st0 == [q |-> q, p |-> p, n |-> notes]
               IN  IF v.outcome = "win"
                   THEN report_loss(other_agent, report_win(current_agent, st0))
                   ELSE IF v.outcome = "draw"
                   THEN report_draw(other_agent, report_draw(current_agent, st0))
                   ELSE st0} :
        /\ spaces' = board
        /\ move_index' = mi
        /\ moves' = moves + 1
        /\ q_table' = st.q
        /\ prev_board' = st.p
        /\ notes' = st.n
        /\ draw_tested' = v.draw_tested
        /\ UNCHANGED << kind, games >>
        /\ IF v.outcome = "win"
           THEN /\ result' = IF current_player = "X" THEN "XWin" ELSE "OWin"
                /\ pc' = "returned"
                /\ UNCHANGED << current_player, current_agent, other_agent >>
           ELSE IF v.outcome = "draw"
           THEN /\ result' = "Draw"
                /\ pc' = "returned"
                /\ UNCHANGED << current_player, current_agent, other_agent >>
           ELSE /\ current_player' = IF current_player = "X" THEN "O" ELSE "X"
                /\ UNCHANGED << current_agent, other_agent, result, pc >>

\* The rest of one loop iteration once get_move returned index mi, with the
\* agents' tables q and previous states p as get_move left them.
Referee(mi, q, p) ==
    \* (each value is bound once, so that it is computed once)
    \E board \in {set(spaces, mi, current_player)} :
    \E v \in {Verdict(board, current_player)} :
    \E st \in {LET st0 == [q |-> q, p |-> p, n |-> notes]
               IN  IF v.outcome = "win"
                   THEN report_loss(other_agent, report_win(current_agent, st0))
                   ELSE IF v.outcome = "draw"
                   THEN report_draw(other_agent, report_draw(current_agent, st0))
                   ELSE st0} :
        /\ spaces' = board
        /\ move_index' = mi
        /\ moves' = moves + 1
        /\ q_table' = st.q
        /\ prev_board' = st.p
        /\ notes' = st.n
        /\ draw_tested' = v.draw_tested
        /\ UNCHANGED << kind, games >>
        /\ IF v.outcome = "win"
           THEN /\ result' = IF current_player = "X" THEN "XWin" ELSE "OWin"
                /\ pc' = "returned"
                /\ UNCHANGED << current_player, current_agent, other_agent >>
           ELSE IF v.outcome = "draw"
           THEN /\ result' = "Draw"
                /\ pc' = "returned"
                /\ UNCHANGED << current_player, current_agent, other_agent >>
           ELSE /\ current_player' = IF current_player = "X" THEN "O" ELSE "X"
                /\ current_agent' = other_agent
                /\ other_agent' = current_agent
                /\ UNCHANGED << result, pc >>

\* get_move panicked: play_game unwinds, nothing else is written.
Panic(q) ==
    /\ pc' = "panic"
    /\ q_table' = q
    /\ UNCHANGED << kind, prev_board, spaces, current_player, current_agent,
                    other_agent, result, games, moves, move_index,
                    draw_tested, notes >>

\* One iteration whose mover is Agent::Random.
RandomTurn ==
    /\ pc = "playing"
    /\ kind[current_agent] = "Random"
    /\ branch' = "Random"
    /\ UNCHANGED explores
    /\ \E avail \in {AvailableList(spaces)} :
           IF Len(avail) = 0
           THEN Panic(q_table)
           ELSE \E index \in {r % Len(avail) : r \in RandDraws} :
                    Referee(avail[index + 1], q_table, prev_board)

\* One iteration whose mover is Agent::Human: the prompt loop returns only a
\* number 1..9, less one, whose cell is available.
HumanTurn ==
    /\ pc = "playing"
    /\ kind[current_agent] = "Human"
    /\ branch' = "Human"
    /\ UNCHANGED explores
    /\ \E num \in 1..9 :
           /\ available(spaces, num - 1)
           /\ Referee(num - 1, q_table, prev_board)

\* (the exploration test placed after update_q)
RLExploreTurn_UpdatesFirst ==
    /\ pc = "playing"
    /\ kind[current_agent] = "RL"
    /\ explores < MaxExplore
    /\ explores' = explores + 1
    /\ branch' = "explore"
    /\ \E avail \in {AvailableList(spaces)} :
       \E g \in {Greedy(spaces, current_player, q_table[current_agent])} :
           LET q == [q_table EXCEPT ![current_agent] =
                         update_q(@, prev_board[current_agent], g[2])]
           IN  IF Len(avail) = 0
               THEN Panic(q)
               ELSE \E index \in {r % Len(avail) : r \in RandDraws} :
                        Referee(avail[index + 1], q, prev_board)

\* One iteration whose mover is Agent::RL and next_u32() % 100 == 1.
RLExploreTurn ==
    /\ pc = "playing"
    /\ kind[current_agent] = "RL"
    /\ explores < MaxExplore
    /\ explores' = explores + 1
    /\ branch' = "explore"
    /\ \E avail \in {AvailableList(spaces)} :
           IF Len(avail) = 0
           THEN Panic(q_table)
           ELSE \E index \in {r % Len(avail) : r \in RandDraws} :
                    Referee(avail[index + 1], q_table, prev_board)

\* (prev_board set to the successor before update_q is applied to it)
RLGreedyTurn_SetPrevFirst ==
    /\ pc = "playing"
    /\ kind[current_agent] = "RL"
    /\ branch' = "greedy"
    /\ UNCHANGED explores
    /\ \E g \in {Greedy(spaces, current_player, q_table[current_agent])} :
           LET best_move == g[1]
               best_value == g[2]
           IN  IF best_move = << >>
               THEN Panic([q_table EXCEPT ![current_agent] =
                               update_q(@, prev_board[current_agent], best_value)])
               ELSE LET p == [prev_board EXCEPT ![current_agent] =
                                  BitOr(spaces, Shl(player_mask(current_player),
                                                    best_move[1] * 2))]
                        q == [q_table EXCEPT ![current_agent] =
                                  update_q(@, p[current_agent], best_value)]
                    IN  Referee(best_move[1], q, p)

\* (prev_board set to the board the agent was shown, not to the successor)
RLGreedyTurn_PrevIsBoard ==
    /\ pc = "playing"
    /\ kind[current_agent] = "RL"
    /\ branch' = "greedy"
    /\ UNCHANGED explores
    /\ \E g \in {Greedy(spaces, current_player, q_table[current_agent])} :
           LET best_move == g[1]
               best_value == g[2]
               q == [q_table EXCEPT ![current_agent] =
                         update_q(@, prev_board[current_agent], best_value)]
           IN  IF best_move = << >>
               THEN Panic(q)
               ELSE Referee(best_move[1], q,
                            [prev_board EXCEPT ![current_agent] = spaces])

\* One iteration whose mover is Agent::RL and next_u32() % 100 # 1.
RLGreedyTurn ==
    /\ pc = "playing"
    /\ kind[current_agent] = "RL"
    /\ branch' = "greedy"
    /\ UNCHANGED explores
    /\ \E g \in {Greedy(spaces, current_player, q_table[current_agent])} :
           LET best_move == g[1]
               best_value == g[2]
               q == [q_table EXCEPT ![current_agent] =
                         update_q(@, prev_board[current_agent], best_value)]
           IN  IF best_move = << >>
               THEN Panic(q)
               ELSE Referee(best_move[1], q,
                            [prev_board EXCEPT ![current_agent] =
                                 BitOr(spaces, Shl(player_mask(current_player),
                                                   best_move[1] * 2))])

\* main's self-play loop calls play_game again with the same two RL agents.
PlayAgain ==
    /\ pc = "returned"
    /\ games < MaxGames
    /\ kind["x_agent"] = "RL" /\ kind["o_agent"] = "RL"
    /\ games' = games + 1
    /\ spaces' = new
    /\ current_player' = "X"
    /\ current_agent' = "x_agent"
    /\ other_agent' = "o_agent"
    /\ pc' = "playing"
    /\ result' = "None"
    /\ moves' = 0
    /\ move_index' = -1
    /\ branch' = "none"
    /\ draw_tested' = FALSE
    /\ notes' = [a \in Slots |-> << >>]
    /\ UNCHANGED << kind, q_table, prev_board, explores >>

\* The agents play_game is called with: main's three pairings (self-play,
\* Random against RL, Human against RL) and the other pairings of Random and
\* RL agents.
Pairing(x, o) == [a \in Slots |-> IF a = "x_agent" THEN x ELSE o]

Pairings == { Pairing("RL", "RL"), Pairing("Random", "RL"), Pairing("Human", "RL"),
              Pairing("Random", "Random"), Pairing("RL", "Random") }

\* main constructs the agents and calls play_game for the first time.
Init ==
    /\ kind \in Pairings
    /\ q_table = [a \in Slots |-> << >>]
    /\ prev_board = [a \in Slots |-> 0]
    /\ spaces = new
    /\ current_player = "X"
    /\ current_agent = "x_agent"
    /\ other_agent = "o_agent"
    /\ pc = "playing"
    /\ result = "None"
    /\ games = 1
    /\ explores = 0
    /\ moves = 0
    /\ move_index = -1
    /\ branch = "none"
    /\ draw_tested = FALSE
    /\ notes = [a \in Slots |-> << >>]

Next ==
    \/ RandomTurn
    \/ HumanTurn
    \/ RLExploreTurn
    \/ RLGreedyTurn
    \/ PlayAgain

Spec == Init /\ [][Next]_vars

\* An agent asked for a move returns one: get_move has no path that waits on
\* anything but the Human's next line of input.
Turn == RandomTurn \/ HumanTurn \/ RLExploreTurn \/ RLGreedyTurn

FairSpec == Spec /\ WF_vars(Turn)

\* ------------------------------------------------------------- Board alone
\* Board::set called with any marker on any available cell of any board built
\* that way: the boards whose cell fields are 00, 10 or 11.
BoardSet(index, value) ==
    /\ available(spaces, index)
    /\ spaces' = set(spaces, index, value)
    /\ UNCHANGED << kind, q_table, prev_board, current_player, current_agent,
                    other_agent, pc, result, games, explores, moves,
                    move_index, branch, draw_tested, notes >>

BoardInit == Init /\ kind = Pairing("Random", "Random")

BoardNext == \E index \in 0..8 : \E value \in Markers : BoardSet(index, value)

BoardSpec == BoardInit /\ [][BoardNext]_vars

\* ================================================================= claims
\* What the claims are stated in: the 2-bit field of a cell read by
\* arithmetic, the codes of the markers, and the eight lines of the grid.
Field(s, i) == (s \div 4^i) % 4

CodeOf(m) == IF m = "X" THEN 3 ELSE 2

Lines == { {3 * r, 3 * r + 1, 3 * r + 2} : r \in 0..2 }
         \cup { {c, c + 3, c + 6} : c \in 0..2 }
         \cup { {0, 4, 8}, {2, 4, 6} }

HasLine(s, m) == \E l \in Lines : \A i \in l : Field(s, i) = CodeOf(m)

Count(s, code) == Cardinality({i \in 0..8 : Field(s, i) = code})

Occupied(s) == {i \in 0..8 : Field(s, i) # 0}

\* C1: in every state of every game, each of the nine 2-bit fields of
\* Board.spaces is 00, 10 or 11, never 01, and no bit above bit 17 is set.
C1_CellCodes ==
    /\ \A i \in 0..8 : Field(spaces, i) \in {0, 2, 3}
    /\ spaces \in 0..(2^18 - 1)

\* A game in which both markers have been placed and cells remain empty.
C1_Witness ==
    /\ pc = "playing"
    /\ Count(spaces, 3) >= 2
    /\ Count(spaces, 2) >= 2
    /\ Count(spaces, 0) >= 1

\* C2: when its agents always return a move, every call of play_game returns;
\* play_game never starts a tenth iteration and never panics, it returns
\* exactly one of XWin, OWin and Draw, and each iteration turns exactly one
\* available cell into an occupied one, leaving the other eight as they were.
C2_Terminates ==
    /\ (pc = "playing") ~> (pc = "returned")
    /\ [](/\ moves \in 0..9
          /\ pc \in {"playing", "returned"}
          /\ pc = "playing" => (moves < 9 /\ result = "None")
          /\ pc = "returned" => (moves \in 1..9 /\ result \in {"XWin", "OWin", "Draw"}))
    /\ [][moves' = moves + 1 =>
            \E i \in 0..8 :
                /\ Field(spaces, i) = 0
                /\ Field(spaces', i) # 0
                /\ \A j \in 0..8 \ {i} : Field(spaces', j) = Field(spaces, j)]_vars

\* A game that took all nine iterations and one that ended before the ninth.
C2_Witness == pc = "returned" /\ moves = 9 /\ result = "Draw"

\* C3: every index get_move returns is in 0..8 and is an empty cell of the
\* board it was given, whichever agent and branch produced it.
C3_MoveAvailable ==
    [][moves' = moves + 1 =>
          /\ move_index' \in 0..8
          /\ Field(spaces, move_index') = 0]_vars

\* The greedy branch answered on a board that already holds marks of both
\* players, after the exploration branch had been taken.
C3_Witness ==
    /\ branch = "greedy"
    /\ explores >= 1
    /\ moves >= 4
    /\ kind = Pairing("RL", "Random")

\* C4: on every board whose fields are 00, 10 or 11, check_winner(m) is true
\* exactly when one of the eight lines has its three cells holding m's code;
\* a line of X never counts for O.
C4_CheckWinner ==
    \A m \in Markers : check_winner(spaces, m) <=> HasLine(spaces, m)

\* A board with a line of X and no line of O, where O loses nothing to X.
C4_Witness ==
    /\ HasLine(spaces, "X")
    /\ ~HasLine(spaces, "O")
    /\ check_winner(spaces, "X")
    /\ ~check_winner(spaces, "O")
    /\ Count(spaces, 2) >= 3

\* C5: on every board of a game, is_draw is true exactly when no index of
\* 0..8 is available.
C5_IsDrawIffFull ==
    is_draw(spaces) <=> \A i \in 0..8 : ~available(spaces, i)

\* A full board, and it is one that play_game found to be a draw.
C5_Witness == is_draw(spaces) /\ Occupied(spaces) = 0..8 /\ result = "Draw"

\* C6: a move that completes a line for the mover ends the game with the
\* mover's win, never a draw, also when it fills the ninth cell, and is_draw
\* is not evaluated in that iteration.
C6_WinBeforeDraw ==
    [][(moves' = moves + 1 /\ HasLine(spaces', current_player)) =>
          /\ pc' = "returned"
          /\ result' = (IF current_player = "X" THEN "XWin" ELSE "OWin")
          /\ ~draw_tested']_vars

\* The ninth move completed a line: the board is full and X has won.
C6_Witness ==
    /\ moves = 9
    /\ Occupied(spaces) = 0..8
    /\ result = "XWin"
    /\ ~draw_tested

\* C7: play_game returns Draw only on a full board on which neither X nor O
\* has a line.
C7_DrawOnlyFullNoWinner ==
    result = "Draw" =>
        /\ Occupied(spaces) = 0..8
        /\ ~HasLine(spaces, "X")
        /\ ~HasLine(spaces, "O")

\* A drawn game of a Human against the learning agent.
C7_Witness == result = "Draw" /\ kind = Pairing("Human", "RL")

\* C8: no agent is notified while the game runs; when it has ended each agent
\* has received exactly one notification: win for the last mover and loss for
\* the other, or draw for both.
C8_OneNotification ==
    /\ pc = "playing" => \A a \in Slots : notes[a] = << >>
    /\ pc = "returned" =>
          IF result = "Draw"
          THEN \A a \in Slots : notes[a] = << "draw" >>
          ELSE /\ notes[current_agent] = << "win" >>
               /\ notes[other_agent] = << "loss" >>
               /\ current_agent # other_agent
               /\ result = (IF current_player = "X" THEN "XWin" ELSE "OWin")

\* O made the last move and won: o_agent got the win, x_agent the loss.
C8_Witness ==
    /\ result = "OWin"
    /\ current_agent = "o_agent"
    /\ notes["o_agent"] = << "win" >>
    /\ notes["x_agent"] = << "loss" >>

\* C9: a field that is 00 reads as ' ' and is available; after set(i, m) on an
\* available cell, at(i) is m's character, available(i) is false and at(j) is
\* what it was for every other j.
C9_SetThenAt ==
    /\ [](\A j \in 0..8 :
              Field(spaces, j) = 0 => (at(spaces, j) = " " /\ available(spaces, j)))
    /\ [][\A i \in 0..8 : \A m \in Markers :
              BoardSet(i, m) =>
                  /\ at(spaces', i) = player_char(m)
                  /\ ~available(spaces', i)
                  /\ \A j \in 0..8 \ {i} : at(spaces', j) = at(spaces, j)]_vars

\* A board on which set has written both markers, O above X, and left cells.
C9_Witness ==
    /\ at(spaces, 8) = "O"
    /\ at(spaces, 7) = "X"
    /\ at(spaces, 0) = " "
    /\ Field(spaces, 8) = 2
    /\ Field(spaces, 7) = 3

\* The value a table gives a key, and the terminal reward of slot a.
Val(table, k) == IF k \in DOMAIN table THEN table[k] ELSE 0

\* n = c + 0.1 * (t - c), in units of 1/Scale.
TD(c, t, n) == 10 * n = 9 * c + t

Tenth == Scale \div 10

Target(a, res) ==
    IF res = "Draw" THEN -(Scale \div 2)
    ELSE IF (res = "XWin") = (a = "x_agent") THEN Scale
    ELSE -Scale

\* C10: the notification that ends a game replaces the value c stored at the
\* key the agent's prev_board holds (0.0 if absent) by c + 0.1 * (t - c), t
\* being +1.0 for a win, -0.5 for a draw and -1.0 for a loss, and changes no
\* other entry; from 0.0 a win gives 0.1, and from 0.1 a win gives 0.19.
C10_UpdateQ ==
    [][(pc = "playing" /\ pc' = "returned") =>
          \A a \in {s \in Slots : kind[s] = "RL"} :
              LET greedy == a = current_agent /\ explores' = explores
                  \* a greedy mover's prev_board is the board it has just made
                  k == IF greedy THEN spaces' ELSE prev_board[a]
                  c == Val(q_table[a], k)
                  t == Target(a, result')
                  n == q_table'[a][k]
              IN  /\ k \in DOMAIN q_table'[a]
                  /\ TD(c, t, n)
                  /\ (t = Scale /\ c = 0) => n = Tenth
                  /\ (t = Scale /\ c = Tenth) => n = 19 * (Tenth \div 10)
                  /\ \A j \in DOMAIN q_table'[a] \ {k, prev_board[a]} :
                         j \in DOMAIN q_table[a] /\ q_table'[a][j] = q_table[a][j]
                  /\ ~greedy => DOMAIN q_table'[a] = DOMAIN q_table[a] \cup {k}]_vars

\* An agent has been told twice that it won from the same state: 0.19.
C10_Witness ==
    /\ pc = "returned"
    /\ \E a \in Slots : \E k \in DOMAIN q_table[a] :
           q_table[a][k] = 19 * (Tenth \div 10)

RLSlots == {a \in Slots : kind[a] = "RL"}

\* C11: over the games the same Learning agents play, an agent's prev_board is
\* 0 at the start of a game until its first get_move of that game, and 0 after
\* each outcome notification it receives.
C11_PrevResetBetweenGames ==
    /\ (pc = "playing" /\ moves = 0) => \A a \in RLSlots : prev_board[a] = 0
    /\ (pc = "playing" /\ moves <= 1) => \A a \in RLSlots \ {"x_agent"} : prev_board[a] = 0
    /\ pc = "returned" =>
           \A a \in RLSlots : notes[a] # << >> /\ prev_board[a] = 0

\* The second game of two trained agents is about to start.
C11_Witness ==
    /\ games = 2
    /\ pc = "playing"
    /\ moves = 0
    /\ \A a \in Slots : kind[a] = "RL" /\ prev_board[a] = 0
                        /\ \E k \in DOMAIN q_table[a] : q_table[a][k] # 0

\* The marker the other player places.
Opponent(m) == IF m = "X" THEN "O" ELSE "X"

\* C12: every temporal-difference update of a Learning agent targets the board
\* as it was immediately after that agent's own most recent move: the terminal
\* reward goes to that key (for the last mover the final board, for the other
\* agent the board before the last move), and the update made in get_move on
\* the agent's second or later turn goes to the board before the opponent's
\* last move.
C12_UpdateTargetsLastMove ==
    [][moves' = moves + 1 =>
          /\ pc' = "returned" =>
                 \A a \in RLSlots :
                     LET k == IF a = current_agent THEN spaces' ELSE spaces
                     IN  /\ k \in DOMAIN q_table'[a]
                         /\ TD(Val(q_table[a], k), Target(a, result'), q_table'[a][k])
          /\ (kind[current_agent] = "RL" /\ explores' = explores /\ moves >= 2) =>
                 prev_board[current_agent] =
                     spaces - CodeOf(Opponent(current_player)) * 4^move_index]_vars

\* C13: the exploration branch of get_move returns an available index and
\* writes neither the agent's table nor its prev_board: after an exploring
\* move that does not end the game both are what they were, and after one that
\* ends it the table differs only by the notification's update of the key
\* prev_board held before the call.
C13_ExploreWritesNothing ==
    [][explores' = explores + 1 =>
          LET a == current_agent
              k == prev_board[a]
          IN  /\ move_index' \in 0..8
              /\ Field(spaces, move_index') = 0
              /\ pc' = "playing" =>
                     (q_table'[a] = q_table[a] /\ prev_board'[a] = prev_board[a])
              /\ pc' = "returned" =>
                     /\ DOMAIN q_table'[a] = DOMAIN q_table[a] \cup {k}
                     /\ TD(Val(q_table[a], k), Target(a, result'), q_table'[a][k])
                     /\ \A j \in DOMAIN q_table[a] \ {k} :
                            q_table'[a][j] = q_table[a][j]]_vars

\* A trained agent, in the middle of its second game, has just explored.
C13_Witness ==
    /\ branch = "explore"
    /\ pc = "playing"
    /\ games = 2
    /\ prev_board[other_agent] # 0
    /\ \E k \in DOMAIN q_table[other_agent] : q_table[other_agent][k] # 0

\* An iteration whose mover took the greedy branch of the RL agent.
GreedyStep ==
    /\ moves' = moves + 1
    /\ kind[current_agent] = "RL"
    /\ explores' = explores

\* The board with cell i given to marker m, and what the table says of it.
Successor(s, i, m) == s + CodeOf(m) * 4^i

\* C14: the index the greedy branch returns is an empty cell whose successor
\* has the largest table value (0.0 for an absent key) among the successors of
\* the empty cells, and the smallest index among those that have it.
C14_GreedyIsFirstArgmax ==
    [][GreedyStep =>
          LET table == q_table[current_agent]
              avail == {i \in 0..8 : Field(spaces, i) = 0}
              v(i) == Val(table, Successor(spaces, i, current_player))
              best == {i \in avail : \A j \in avail : v(j) <= v(i)}
          IN  /\ move_index' \in best
              /\ \A j \in best : move_index' <= j]_vars

\* The greedy branch passed over a lower empty cell, whose value was smaller.
C14_Witness ==
    /\ branch = "greedy"
    /\ \E j \in 0..8 : j < move_index /\ Field(spaces, j) = 0

\* C15: the greedy branch applies the update to the key prev_board held when
\* get_move was entered (key 0 on the agent's first turn of a game), with the
\* largest successor value of the table as it then was for target, touches no
\* other entry, and leaves prev_board at the successor it chose.
C15_GreedyUpdatesPrevThenMoves ==
    [][GreedyStep =>
          LET a == current_agent
              table == q_table[a]
              k == prev_board[a]
              avail == {i \in 0..8 : Field(spaces, i) = 0}
              values == {Val(table, Successor(spaces, i, current_player)) : i \in avail}
              best_value == CHOOSE x \in values : \A y \in values : y <= x
              chosen == Successor(spaces, move_index', current_player)
          IN  /\ moves <= 1 => k = 0
              /\ k # chosen
              /\ k \in DOMAIN q_table'[a]
              /\ TD(Val(table, k), best_value, q_table'[a][k])
              /\ \A j \in DOMAIN q_table'[a] \ {k, chosen} :
                     j \in DOMAIN table /\ q_table'[a][j] = table[j]
              /\ pc' = "playing" =>
                     /\ prev_board'[a] = chosen
                     /\ DOMAIN q_table'[a] = DOMAIN table \cup {k}
                     /\ chosen \in DOMAIN table => q_table'[a][chosen] = table[chosen]]_vars

\* A greedy move whose update carried a learned value back: the state before
\* the winning one now holds 0.1 * 0.1, and key 0 was written on a first turn.
C15_Witness ==
    /\ branch = "greedy"
    /\ 0 \in DOMAIN q_table[current_agent]
    /\ \E k \in DOMAIN q_table[current_agent] :
           k # 0 /\ q_table[current_agent][k] = Tenth \div 10

\* C16: whenever play_game is about to call get_move some cell of 0..8 is
\* empty, so the list of available cells is non-empty and no run reaches the
\* panics of the Random and RL branches.
C16_NeverFullAtGetMove ==
    /\ pc # "panic"
    /\ pc = "playing" =>
           /\ \E i \in 0..8 : Field(spaces, i) = 0
           /\ AvailableList(spaces) # << >>

\* get_move is about to be called with a single empty cell left.
C16_Witness ==
    /\ pc = "playing"
    /\ moves = 8
    /\ Cardinality(Occupied(spaces)) = 8
    /\ kind[current_agent] \in {"Random", "RL"}

\* C17: move n of a game (counted from 0) is asked of x_agent with marker X
\* when n is even and of o_agent with marker O when n is odd, so the X cells
\* outnumber the O cells by 0 or 1 in every state.
C17_TurnOrderIsParity ==
    LET n == IF pc = "playing" THEN moves ELSE moves - 1
    IN  /\ pc = "returned" => moves >= 1
        /\ IF n % 2 = 0
           THEN /\ current_agent = "x_agent"
                /\ other_agent = "o_agent"
                /\ current_player = "X"
           ELSE /\ current_agent = "o_agent"
                /\ other_agent = "x_agent"
                /\ current_player = "O"
        /\ Count(spaces, 3) + Count(spaces, 2) = moves
        /\ Count(spaces, 3) - Count(spaces, 2) = moves % 2
        /\ Count(spaces, 3) - Count(spaces, 2) \in {0, 1}

\* The fourth move of a game (n = 3) is about to be asked of o_agent, after
\* three swaps.
C17_Witness ==
    /\ pc = "playing"
    /\ moves = 3
    /\ current_agent = "o_agent"
    /\ current_player = "O"
    /\ Count(spaces, 3) = 2
    /\ Count(spaces, 2) = 1

\* The marker a slot of play_game plays.
MarkerOf(a) == IF a = "x_agent" THEN "X" ELSE "O"

\* k encodes a board that play can show immediately after a move of slot a:
\* fields 00, 10 or 11 only, the counts of a position a has just moved in, no
\* line of the opponent, and no line of a's own before its last marker.
AfterOwnMove(a, k) ==
    /\ k \in 1..(2^18 - 1)
    /\ \A i \in 0..8 : Field(k, i) \in {0, 2, 3}
    /\ Count(k, 3) - Count(k, 2) = IF a = "x_agent" THEN 1 ELSE 0
    /\ ~HasLine(k, Opponent(MarkerOf(a)))
    /\ \E i \in 0..8 :
           /\ Field(k, i) = CodeOf(MarkerOf(a))
           /\ ~HasLine(k - CodeOf(MarkerOf(a)) * 4^i, MarkerOf(a))

\* C18: prev_board of an RL agent starts at 0, becomes the board just after
\* the agent's move exactly when that move is a greedy one that does not end
\* the game, is left alone by every other step of the game (the agent's
\* exploration moves and the opponent's moves), and is 0 again once the game
\* has ended; so it is 0 or the board after the agent's latest greedy move of
\* the game, and every key of its table is 0 or a board after an own move.
C18_PrevIsLastGreedySuccessor ==
    /\ \A a \in RLSlots : prev_board[a] = 0 /\ DOMAIN q_table[a] = {}
    /\ [](\A a \in RLSlots :
              /\ prev_board[a] # 0 => (pc = "playing" /\ AfterOwnMove(a, prev_board[a]))
              /\ \A k \in DOMAIN q_table[a] : k = 0 \/ AfterOwnMove(a, k))
    /\ [][\A a \in RLSlots :
              /\ prev_board'[a] =
                     IF pc' = "returned" THEN 0
                     ELSE IF a = current_agent /\ GreedyStep THEN spaces'
                     ELSE prev_board[a]
              /\ DOMAIN q_table'[a] \subseteq
                     DOMAIN q_table[a] \cup {prev_board[a]}
                         \cup (IF a = current_agent /\ GreedyStep THEN {spaces'} ELSE {})]_vars

\* After an exploration move the mover's prev_board is still the board after
\* its earlier greedy move, two markers behind the board on the table.
C18_Witness ==
    /\ branch = "explore"
    /\ pc = "playing"
    /\ kind[other_agent] = "RL"
    /\ prev_board[other_agent] # 0
    /\ prev_board[other_agent] # spaces
    /\ Count(prev_board[other_agent], 0) = Count(spaces, 0) + 2

\* C19: in every state of a game at most one marker has a complete line, by
\* check_winner and by the eight lines alike; XWin is returned only on a board
\* with a line of X and none of O, OWin only on one with a line of O and none
\* of X, and while a move is still to be requested neither has a line.
C19_AtMostOneWinner ==
    /\ \A m \in Markers : check_winner(spaces, m) <=> HasLine(spaces, m)
    /\ ~(check_winner(spaces, "X") /\ check_winner(spaces, "O"))
    /\ result = "XWin" => (check_winner(spaces, "X") /\ ~check_winner(spaces, "O"))
    /\ result = "OWin" => (check_winner(spaces, "O") /\ ~check_winner(spaces, "X"))
    /\ pc = "playing" => (~check_winner(spaces, "X") /\ ~check_winner(spaces, "O"))

\* O has won on a diagonal, X holding three cells without a line.
C19_Witness ==
    /\ pc = "returned"
    /\ result = "OWin"
    /\ check_winner(spaces, "O")
    /\ \A i \in {2, 4, 6} : Field(spaces, i) = 2
    /\ Count(spaces, 3) = 3

\* The targets an update of table can have: the three rewards, the default
\* value, and the values stored in the table.
Targets(table) ==
    {REWARD_WIN, REWARD_DRAW, REWARD_LOSS, DEFAULT_VALUE} \cup {table[k] : k \in DOMAIN table}

\* C20: every value of every table lies in [-1.0, 1.0]; each step leaves every
\* entry between the least and the greatest of its old value (the default for
\* a new key) and the targets, which is what keeps the interval closed under
\* updates.
C20_ValuesWithinUnit ==
    /\ [](\A a \in Slots : \A k \in DOMAIN q_table[a] :
              -Scale <= q_table[a][k] /\ q_table[a][k] <= Scale)
    /\ [][\A a \in Slots : \A k \in DOMAIN q_table'[a] :
              LET hull == Targets(q_table[a]) \cup {Val(q_table[a], k)}
              IN  /\ \E lo \in hull : lo <= q_table'[a][k]
                  /\ \E hi \in hull : q_table'[a][k] <= hi]_vars

\* A table holding a value raised by a win and one lowered by a loss.
C20_Witness ==
    \E a \in Slots : \E k1, k2 \in DOMAIN q_table[a] :
        /\ q_table[a][k1] = Tenth
        /\ q_table[a][k2] = -Tenth

====
